---- MODULE Spec2Model ----
(***************************************************************************)
(* Model of streaming_client/client.py: the lazy token generators          *)
(* (sync_stream, async_stream), the aggregators, the transform and safe    *)
(* wrappers and the LLMStreamingClient facade, together with the consumers *)
(* that test_client.py drives them with.                                   *)
(*                                                                         *)
(* A Python str is a sequence of one-character strings.  A generator is a  *)
(* record holding its position; a pull (next / __anext__) on the outermost *)
(* generator of a stack runs down the stack to the source and back.        *)
(***************************************************************************)
EXTENDS Integers, Sequences, FiniteSets, TLC

(***************************************************************************)
(* Bounds of the model.                                                    *)
(***************************************************************************)
MaxPromptLen == 3
MaxSrcLen == 2
MaxWrappers == 2
MaxDelay == 2
MaxRePulls == 2
MaxTasks == 2

(***************************************************************************)
(* Strings.                                                                *)
(***************************************************************************)
Chars == {"a", "b", " ", "\t"}

IsSpace(c) == c \in {" ", "\t"}

RECURSIVE SeqsUpTo(_, _)
SeqsUpTo(S, n) ==
  IF n = 0 THEN {<<>>}
  ELSE LET shorter == SeqsUpTo(S, n - 1)
       IN  shorter \cup {Append(s, x) : s \in {t \in shorter : Len(t) = n - 1}, x \in S}

\* str.split() with no separator: runs of whitespace separate the words and
\* leading and trailing whitespace produce no empty word.
RECURSIVE str_split(_)
str_split(s) ==
  IF s = <<>> THEN <<>>
  ELSE IF IsSpace(Head(s)) THEN str_split(Tail(s))
  ELSE LET ends == {i \in 1..Len(s) : IsSpace(s[i])}
           stop == IF ends = {} THEN Len(s) + 1
                   ELSE CHOOSE i \in ends : \A j \in ends : i <= j
       IN  <<SubSeq(s, 1, stop - 1)>> \o str_split(SubSeq(s, stop, Len(s)))

\* " ".join(tokens)
RECURSIVE str_join(_)
str_join(tokens) ==
  IF tokens = <<>> THEN <<>>
  ELSE IF Len(tokens) = 1 THEN tokens[1]
  ELSE tokens[1] \o <<" ">> \o str_join(Tail(tokens))

\* The literal ["No", "prompt", "provided"].
NoPromptTokens ==
  << <<"N", "o">>,
     <<"p", "r", "o", "m", "p", "t">>,
     <<"p", "r", "o", "v", "i", "d", "e", "d">> >>

\* A prompt argument: a str, or None.
Str(s) == [some |-> TRUE, str |-> s]
None == [some |-> FALSE, str |-> <<>>]

\* Truth value of a prompt in "if prompt": None and "" are false.
Truthy(p) == p.some /\ p.str # <<>>

Prompts ==
  {Str(s) : s \in SeqsUpTo(Chars, MaxPromptLen)}
    \cup {None, Str(str_join(NoPromptTokens))}

(***************************************************************************)
(* Tokens, failures and the caller-supplied functions of the tests.        *)
(***************************************************************************)
SrcTokens == {<<"a">>, <<"a", "b">>}

Exc(cls, msg) == [cls |-> cls, msg |-> msg]
NoExc == Exc("none", <<>>)
SrcFailures == {Exc("Exception", <<"X">>), Exc("Exception", <<"Y">>)}

\* "except BaseException" (or a bare "except:") for "except Exception".
IsException_base(e) == e.cls # "none"

\* "except Exception" catches instances of Exception and its subclasses.
IsException(e) == e.cls \in {"Exception", "TypeError"}

\* The argument-binding failure of a call with a keyword the function
\* does not declare.
UnexpectedKeyword == Exc("TypeError", <<"c", "a", "l", "l", "b", "a", "c", "k">>)

\* What close() throws into a generator at its yield: a BaseException that
\* is not an Exception.
GeneratorExit == Exc("GeneratorExit", <<>>)

\* on_error = lambda e: f"[ERROR: {str(e)}]"
on_error(e) == <<"[">> \o e.msg \o <<"]">>

\* The recovery policies callers pass: None ("none"), the lambda above
\* ("error_token"), and a function that itself raises ("raises").
Handlers == {"none", "error_token", "raises"}
OnErrorFailure == Exc("Exception", <<"H">>)
on_error_raises(handler, e) == handler = "raises"

\* str.upper on the characters of the model.
UpperChar(c) == IF c = "a" THEN "A" ELSE IF c = "b" THEN "B" ELSE c

\* def to_upper(token): return token.upper()
to_upper(token) == [i \in 1..Len(token) |-> UpperChar(token[i])]

\* The pure transform functions callers pass: to_upper, and lambda t: t + t.
Funcs == {"to_upper", "double"}
transform_func(f, token) == IF f = "double" THEN token \o token ELSE to_upper(token)

\* A transform function that fails: "reject_b" raises on a token with a "b"
\* in it and is to_upper on the others.
FailingFuncs == {"reject_b"}
TransformFailure == Exc("Exception", <<"T">>)
transform_raises(f, token) ==
  f = "reject_b" /\ \E i \in 1..Len(token) : token[i] = "b"

(***************************************************************************)
(* Generators.  A layer is what a generator was constructed with; a        *)
(* generator state is where its frame stands.                              *)
(***************************************************************************)
Layer(kind, prompt, toks, fail, f, handler) ==
  [kind |-> kind, prompt |-> prompt, toks |-> toks, fail |-> fail,
   f |-> f, on_error |-> handler]

\* sync_stream(prompt) in blocking mode, async_stream(prompt) in suspending mode.
StreamOf(prompt) == Layer("stream", prompt, <<>>, NoExc, "none", "none")
FailingStreamOf(toks, fail) == Layer("failing", None, toks, fail, "none", "none")
TransformOf(f) == Layer("transform", None, <<>>, NoExc, f, "none")
SafeOf(handler) == Layer("safe", None, <<>>, NoExc, "none", handler)
AStreamLayer == Layer("astream", None, <<>>, NoExc, "none", "none")

\* st: "created" (frame not started), "suspended" (at a yield), "sleeping"
\* (at the await of asyncio.sleep), "recovered" (at the yield of the except
\* branch), "finished" (returned or raised).
Gen(st, pos, toks) == [st |-> st, pos |-> pos, toks |-> toks]
NewGen == Gen("created", 0, <<>>)
Finished(g) == Gen("finished", g.pos, g.toks)

\* What a pull gives back: a token, StopIteration / StopAsyncIteration, a
\* raised failure, or (suspending mode) control handed to the event loop.
TokRes(t) == [kind |-> "tok", val |-> t, exc |-> NoExc]
StopRes == [kind |-> "stop", val |-> <<>>, exc |-> NoExc]
RaiseRes(e) == [kind |-> "raise", val |-> <<>>, exc |-> e]
AwaitRes == [kind |-> "await", val |-> <<>>, exc |-> NoExc]

\* One run of a generator's code from where it stood to its next yield,
\* return or raise: the result, the new state, whether the inner generator
\* was pulled, and the caller-supplied function it invoked, if any.
Called(what, val, e) == [what |-> what, val |-> val, exc |-> e]
Step(res, g, pulled) == [res |-> res, g |-> g, pulled |-> pulled, calls |-> <<>>]
StepCalling(res, g, pulled, c) == [res |-> res, g |-> g, pulled |-> pulled, calls |-> <<c>>]

\* sync_stream with "if prompt is not None" for "if prompt".
sync_stream_tokens_not_none(prompt) ==
  IF prompt.some THEN str_split(prompt.str) ELSE NoPromptTokens

\* sync_stream, line 8
sync_stream_tokens(prompt) ==
  IF Truthy(prompt) THEN str_split(prompt.str) ELSE NoPromptTokens

\* async_stream without the fallback.
async_stream_tokens_no_fallback(prompt) == str_split(prompt.str)

\* async_stream, line 17
async_stream_tokens(prompt) ==
  IF Truthy(prompt) THEN str_split(prompt.str) ELSE NoPromptTokens

\* sync_stream that starts over when pulled after its last token.
sync_stream_restarts(g, L) ==
  LET tokens == IF g.st = "created" THEN sync_stream_tokens(L.prompt) ELSE g.toks
  IN  IF g.st = "finished"
        THEN IF tokens = <<>> THEN Step(StopRes, g, FALSE)
             ELSE Step(TokRes(tokens[1]), Gen("suspended", 1, tokens), FALSE)
      ELSE IF g.pos < Len(tokens)
        THEN Step(TokRes(tokens[g.pos + 1]), Gen("suspended", g.pos + 1, tokens), FALSE)
        ELSE Step(StopRes, Gen("finished", g.pos, tokens), FALSE)

\* One next() on sync_stream(prompt).
sync_stream(g, L) ==
  LET tokens == IF g.st = "created" THEN sync_stream_tokens(L.prompt) ELSE g.toks
  IN  IF g.st = "finished" THEN Step(StopRes, g, FALSE)
      ELSE IF g.pos < Len(tokens)
        THEN Step(TokRes(tokens[g.pos + 1]), Gen("suspended", g.pos + 1, tokens), FALSE)
        ELSE Step(StopRes, Gen("finished", g.pos, tokens), FALSE)

\* async_stream that awaits its sleep again whenever it is resumed from it.
async_stream_sleeps_again(g, L) ==
  LET tokens == IF g.st = "created" THEN async_stream_tokens(L.prompt) ELSE g.toks
  IN  IF g.st = "finished" THEN Step(StopRes, g, FALSE)
      ELSE IF g.pos < Len(tokens)
        THEN Step(AwaitRes, Gen("sleeping", g.pos, tokens), FALSE)
        ELSE Step(StopRes, Gen("finished", g.pos, tokens), FALSE)

\* One resumption of async_stream(prompt): entering an iteration suspends
\* at asyncio.sleep; the resumption after the sleep yields the token.
async_stream(g, L) ==
  LET tokens == IF g.st = "created" THEN async_stream_tokens(L.prompt) ELSE g.toks
  IN  IF g.st = "finished" THEN Step(StopRes, g, FALSE)
      ELSE IF g.st = "sleeping"
        THEN Step(TokRes(tokens[g.pos + 1]), Gen("suspended", g.pos + 1, tokens), FALSE)
      ELSE IF g.pos < Len(tokens)
        THEN Step(AwaitRes, Gen("sleeping", g.pos, tokens), FALSE)
        ELSE Step(StopRes, Gen("finished", g.pos, tokens), FALSE)

\* failing_sync_stream / failing_async_stream of the tests, for any tokens
\* and failure: yields L.toks, then raises L.fail (or ends if there is none).
failing_stream(g, L) ==
  IF g.st = "finished" THEN Step(StopRes, g, FALSE)
  ELSE IF g.pos < Len(L.toks)
    THEN Step(TokRes(L.toks[g.pos + 1]), Gen("suspended", g.pos + 1, L.toks), FALSE)
  ELSE IF L.fail # NoExc
    THEN Step(RaiseRes(L.fail), Gen("finished", g.pos, L.toks), FALSE)
    ELSE Step(StopRes, Gen("finished", g.pos, L.toks), FALSE)

\* transform_sync_stream that hands the failure of the inner generator to
\* transform_func and yields what it returns.
transform_sync_stream_maps_failure(g, L, inner) ==
  IF g.st = "finished" THEN Step(StopRes, g, FALSE)
  ELSE IF inner.kind = "tok"
    THEN StepCalling(TokRes(transform_func(L.f, inner.val)),
                     Gen("suspended", g.pos + 1, <<>>), TRUE,
                     Called("transform_func", inner.val, NoExc))
  ELSE IF inner.kind = "raise"
    THEN StepCalling(TokRes(transform_func(L.f, inner.exc.msg)),
                     Gen("suspended", g.pos + 1, <<>>), TRUE,
                     Called("transform_func", inner.exc.msg, NoExc))
  ELSE Step(inner, Finished(g), TRUE)

\* One next() on transform_sync_stream(generator, transform_func); inner is
\* what next(generator) gives.
transform_sync_stream(g, L, inner) ==
  IF g.st = "finished" THEN Step(StopRes, g, FALSE)
  ELSE IF inner.kind = "tok"
    THEN IF transform_raises(L.f, inner.val)
           THEN StepCalling(RaiseRes(TransformFailure), Finished(g), TRUE,
                            Called("transform_func", inner.val, NoExc))
           ELSE StepCalling(TokRes(transform_func(L.f, inner.val)),
                            Gen("suspended", g.pos + 1, <<>>), TRUE,
                            Called("transform_func", inner.val, NoExc))
  ELSE Step(inner, Finished(g), TRUE)

\* transform_async_stream yielding the token itself.
transform_async_stream_untransformed(g, L, inner) ==
  IF g.st = "finished" THEN Step(StopRes, g, FALSE)
  ELSE IF inner.kind = "tok"
    THEN Step(TokRes(inner.val), Gen("suspended", g.pos + 1, <<>>), TRUE)
  ELSE IF inner.kind = "await" THEN Step(AwaitRes, g, TRUE)
  ELSE Step(inner, Finished(g), TRUE)

\* transform_async_stream that ends quietly when transform_func raises.
transform_async_stream_quiet(g, L, inner) ==
  IF g.st = "finished" THEN Step(StopRes, g, FALSE)
  ELSE IF inner.kind = "tok"
    THEN IF transform_raises(L.f, inner.val)
           THEN StepCalling(StopRes, Finished(g), TRUE,
                            Called("transform_func", inner.val, NoExc))
           ELSE StepCalling(TokRes(transform_func(L.f, inner.val)),
                            Gen("suspended", g.pos + 1, <<>>), TRUE,
                            Called("transform_func", inner.val, NoExc))
  ELSE IF inner.kind = "await" THEN Step(AwaitRes, g, TRUE)
  ELSE Step(inner, Finished(g), TRUE)

\* One resumption of transform_async_stream(async_generator, transform_func).
transform_async_stream(g, L, inner) ==
  IF g.st = "finished" THEN Step(StopRes, g, FALSE)
  ELSE IF inner.kind = "tok"
    THEN IF transform_raises(L.f, inner.val)
           THEN StepCalling(RaiseRes(TransformFailure), Finished(g), TRUE,
                            Called("transform_func", inner.val, NoExc))
           ELSE StepCalling(TokRes(transform_func(L.f, inner.val)),
                            Gen("suspended", g.pos + 1, <<>>), TRUE,
                            Called("transform_func", inner.val, NoExc))
  ELSE IF inner.kind = "await" THEN Step(AwaitRes, g, TRUE)
  ELSE Step(inner, Finished(g), TRUE)

\* safe_sync_stream whose except branch always re-raises.
safe_sync_stream_reraise(g, L, inner) ==
  IF g.st = "finished" THEN Step(StopRes, g, FALSE)
  ELSE IF inner.kind = "tok"
    THEN Step(TokRes(inner.val), Gen("suspended", g.pos + 1, <<>>), TRUE)
  ELSE Step(inner, Finished(g), TRUE)

\* safe_sync_stream that ends quietly when on_error raises.
safe_sync_stream_quiet_handler(g, L, inner) ==
  IF g.st = "finished" THEN Step(StopRes, g, FALSE)
  ELSE IF g.st = "recovered" THEN Step(StopRes, Finished(g), FALSE)
  ELSE IF inner.kind = "tok"
    THEN Step(TokRes(inner.val), Gen("suspended", g.pos + 1, <<>>), TRUE)
  ELSE IF inner.kind = "raise" /\ IsException(inner.exc)
    THEN IF L.on_error # "none"
           THEN IF on_error_raises(L.on_error, inner.exc)
                  THEN StepCalling(StopRes, Finished(g), TRUE,
                                   Called("on_error", <<>>, inner.exc))
                  ELSE StepCalling(TokRes(on_error(inner.exc)),
                                   Gen("recovered", g.pos + 1, <<>>), TRUE,
                                   Called("on_error", <<>>, inner.exc))
           ELSE Step(RaiseRes(inner.exc), Finished(g), TRUE)
  ELSE Step(inner, Finished(g), TRUE)

\* One next() on safe_sync_stream(generator, on_error).
safe_sync_stream(g, L, inner) ==
  IF g.st = "finished" THEN Step(StopRes, g, FALSE)
  ELSE IF g.st = "recovered" THEN Step(StopRes, Finished(g), FALSE)
  ELSE IF inner.kind = "tok"
    THEN Step(TokRes(inner.val), Gen("suspended", g.pos + 1, <<>>), TRUE)
  ELSE IF inner.kind = "raise" /\ IsException(inner.exc)
    THEN IF L.on_error # "none"
           THEN IF on_error_raises(L.on_error, inner.exc)
                  THEN StepCalling(RaiseRes(OnErrorFailure), Finished(g), TRUE,
                                   Called("on_error", <<>>, inner.exc))
                  ELSE StepCalling(TokRes(on_error(inner.exc)),
                                   Gen("recovered", g.pos + 1, <<>>), TRUE,
                                   Called("on_error", <<>>, inner.exc))
           ELSE Step(RaiseRes(inner.exc), Finished(g), TRUE)
  ELSE Step(inner, Finished(g), TRUE)

\* safe_async_stream whose except branch passes when there is no on_error.
safe_async_stream_swallow(g, L, inner) ==
  IF g.st = "finished" THEN Step(StopRes, g, FALSE)
  ELSE IF g.st = "recovered" THEN Step(StopRes, Finished(g), FALSE)
  ELSE IF inner.kind = "tok"
    THEN Step(TokRes(inner.val), Gen("suspended", g.pos + 1, <<>>), TRUE)
  ELSE IF inner.kind = "await" THEN Step(AwaitRes, g, TRUE)
  ELSE IF inner.kind = "raise" /\ IsException(inner.exc)
    THEN IF L.on_error # "none"
           THEN IF on_error_raises(L.on_error, inner.exc)
                  THEN StepCalling(RaiseRes(OnErrorFailure), Finished(g), TRUE,
                                   Called("on_error", <<>>, inner.exc))
                  ELSE StepCalling(TokRes(on_error(inner.exc)),
                                   Gen("recovered", g.pos + 1, <<>>), TRUE,
                                   Called("on_error", <<>>, inner.exc))
           ELSE Step(StopRes, Finished(g), TRUE)
  ELSE Step(inner, Finished(g), TRUE)

\* safe_async_stream that goes on with its loop after the on_error token.
safe_async_stream_retry(g, L, inner) ==
  IF g.st = "finished" THEN Step(StopRes, g, FALSE)
  ELSE IF inner.kind = "tok"
    THEN Step(TokRes(inner.val), Gen("suspended", g.pos + 1, <<>>), TRUE)
  ELSE IF inner.kind = "await" THEN Step(AwaitRes, g, TRUE)
  ELSE IF inner.kind = "raise" /\ IsException(inner.exc)
    THEN IF L.on_error # "none"
           THEN IF on_error_raises(L.on_error, inner.exc)
                  THEN StepCalling(RaiseRes(OnErrorFailure), Finished(g), TRUE,
                                   Called("on_error", <<>>, inner.exc))
                  ELSE StepCalling(TokRes(on_error(inner.exc)),
                                   Gen("suspended", g.pos + 1, <<>>), TRUE,
                                   Called("on_error", <<>>, inner.exc))
           ELSE Step(RaiseRes(inner.exc), Finished(g), TRUE)
  ELSE Step(inner, Finished(g), TRUE)

\* One resumption of safe_async_stream(async_gen, on_error).
safe_async_stream(g, L, inner) ==
  IF g.st = "finished" THEN Step(StopRes, g, FALSE)
  ELSE IF g.st = "recovered" THEN Step(StopRes, Finished(g), FALSE)
  ELSE IF inner.kind = "tok"
    THEN Step(TokRes(inner.val), Gen("suspended", g.pos + 1, <<>>), TRUE)
  ELSE IF inner.kind = "await" THEN Step(AwaitRes, g, TRUE)
  ELSE IF inner.kind = "raise" /\ IsException(inner.exc)
    THEN IF L.on_error # "none"
           THEN IF on_error_raises(L.on_error, inner.exc)
                  THEN StepCalling(RaiseRes(OnErrorFailure), Finished(g), TRUE,
                                   Called("on_error", <<>>, inner.exc))
                  ELSE StepCalling(TokRes(on_error(inner.exc)),
                                   Gen("recovered", g.pos + 1, <<>>), TRUE,
                                   Called("on_error", <<>>, inner.exc))
           ELSE Step(RaiseRes(inner.exc), Finished(g), TRUE)
  ELSE Step(inner, Finished(g), TRUE)

\* One resumption of LLMStreamingClient.astream(prompt): forwards
\* async_stream(prompt) token by token.
astream(g, L, inner) ==
  IF g.st = "finished" THEN Step(StopRes, g, FALSE)
  ELSE IF inner.kind = "tok"
    THEN Step(TokRes(inner.val), Gen("suspended", g.pos + 1, <<>>), TRUE)
  ELSE IF inner.kind = "await" THEN Step(AwaitRes, g, TRUE)
  ELSE Step(inner, Finished(g), TRUE)

\* close() / aclose() on safe_sync_stream / safe_async_stream: GeneratorExit
\* is raised at the yield the generator stands at.  At the yield of the try
\* block the except clause sees it; a generator not yet started, already
\* finished or standing in the except branch just ends.
safe_stream_close(g, L) ==
  IF g.st = "suspended" /\ IsException(GeneratorExit) /\ L.on_error # "none"
    THEN StepCalling(StopRes, Finished(g), FALSE, Called("on_error", <<>>, GeneratorExit))
    ELSE Step(StopRes, Finished(g), FALSE)

\* close() on generator k; the other generators have no try block.
close_generator(g, L) ==
  IF L.kind = "safe" THEN safe_stream_close(g, L) ELSE Step(StopRes, Finished(g), FALSE)

\* A pull on generator k of the stack: the generator's code runs, pulling
\* generator k - 1 where its loop does.  Gives the result, all the
\* generators' new states and what happened, in order: which generators
\* were pulled, which functions were invoked, which generators raised.
Ev(k, what, val, e) == [k |-> k, what |-> what, val |-> val, exc |-> e]
PullEv(k) == <<Ev(k, "pull", <<>>, NoExc)>>
RaiseEv(k, res) == IF res.kind = "raise" THEN <<Ev(k, "raise", <<>>, res.exc)>> ELSE <<>>
CallEv(k, calls) == [i \in 1..Len(calls) |-> Ev(k, calls[i].what, calls[i].val, calls[i].exc)]

RECURSIVE Pull(_, _, _, _)

\* Pull with a wrapper that fetches one token ahead of the one it hands on.
Pull_ahead(mode, layers, gens, k) ==
  LET L == layers[k]
      g == gens[k]
  IN  IF k = 1
        THEN LET s == IF L.kind = "failing" THEN failing_stream(g, L)
                      ELSE IF mode = "sync" THEN sync_stream(g, L)
                      ELSE async_stream(g, L)
             IN  [res |-> s.res, gens |-> [gens EXCEPT ![1] = s.g],
                  ev |-> PullEv(1) \o RaiseEv(1, s.res)]
        ELSE LET low == Pull(mode, layers, gens, k - 1)
                 more == IF low.res.kind = "tok" /\ k = 2 /\ L.kind = "transform"
                           THEN Pull(mode, layers, low.gens, k - 1)
                           ELSE [res |-> low.res, gens |-> low.gens, ev |-> <<>>]
                 s == IF L.kind = "transform"
                        THEN IF mode = "sync" THEN transform_sync_stream(g, L, low.res)
                             ELSE transform_async_stream(g, L, low.res)
                      ELSE IF L.kind = "safe"
                        THEN IF mode = "sync" THEN safe_sync_stream(g, L, low.res)
                             ELSE safe_async_stream(g, L, low.res)
                      ELSE astream(g, L, low.res)
                 below == IF s.pulled THEN more.gens ELSE gens
             IN  [res |-> s.res, gens |-> [below EXCEPT ![k] = s.g],
                  ev |-> PullEv(k) \o (IF s.pulled THEN low.ev \o more.ev ELSE <<>>)
                           \o CallEv(k, s.calls) \o RaiseEv(k, s.res)]

Pull(mode, layers, gens, k) ==
  LET L == layers[k]
      g == gens[k]
  IN  IF k = 1
        THEN LET s == IF L.kind = "failing" THEN failing_stream(g, L)
                      ELSE IF mode = "sync" THEN sync_stream(g, L)
                      ELSE async_stream(g, L)
             IN  [res |-> s.res, gens |-> [gens EXCEPT ![1] = s.g],
                  ev |-> PullEv(1) \o RaiseEv(1, s.res)]
        ELSE LET low == Pull(mode, layers, gens, k - 1)
                 s == IF L.kind = "transform"
                        THEN IF mode = "sync" THEN transform_sync_stream(g, L, low.res)
                             ELSE transform_async_stream(g, L, low.res)
                      ELSE IF L.kind = "safe"
                        THEN IF mode = "sync" THEN safe_sync_stream(g, L, low.res)
                             ELSE safe_async_stream(g, L, low.res)
                      ELSE astream(g, L, low.res)
                 below == IF s.pulled THEN low.gens ELSE gens
             IN  [res |-> s.res, gens |-> [below EXCEPT ![k] = s.g],
                  ev |-> PullEv(k) \o (IF s.pulled THEN low.ev ELSE <<>>)
                           \o CallEv(k, s.calls) \o RaiseEv(k, s.res)]

\* list(generator): the tokens of a blocking generator drained from its
\* current state, and the failure that ended the drain (NoExc if none).
RECURSIVE Drain(_, _, _)
Drain(layers, gens, acc) ==
  LET p == Pull("sync", layers, gens, Len(layers))
  IN  IF p.res.kind = "tok" THEN Drain(layers, p.gens, Append(acc, p.res.val))
      ELSE [out |-> acc, exc |-> p.res.exc, gens |-> p.gens]

\* Closing the outermost generator releases the ones it holds, which are
\* closed in turn: the new states and what was invoked, outermost first.
RECURSIVE CloseEv(_, _, _)
CloseEv(layers, gens, k) ==
  IF k = 0 THEN <<>>
  ELSE CallEv(k, close_generator(gens[k], layers[k]).calls) \o CloseEv(layers, gens, k - 1)

CloseAll(layers, gens) ==
  [gens |-> [k \in 1..Len(layers) |-> close_generator(gens[k], layers[k]).g],
   ev |-> CloseEv(layers, gens, Len(layers))]

\* collect_sync_response joining with "" for " ".
RECURSIVE str_concat(_)
str_concat(tokens) ==
  IF tokens = <<>> THEN <<>> ELSE Head(tokens) \o str_concat(Tail(tokens))

collect_sync_response_no_separator(prompt) ==
  LET tokens == Drain(<<StreamOf(prompt)>>, <<NewGen>>, <<>>).out
  IN  str_concat(tokens)

\* collect_sync_response(prompt)
collect_sync_response(prompt) ==
  LET tokens == Drain(<<StreamOf(prompt)>>, <<NewGen>>, <<>>).out
  IN  str_join(tokens)

(***************************************************************************)
(* The LLMStreamingClient calls.  A call gives the failure it raises       *)
(* (NoExc if none) and the generators it constructs, innermost first.      *)
(* callback is the keyword the caller passes: "none" when it passes none,  *)
(* "plain" for a function, "suspending" for a coroutine function.          *)
(***************************************************************************)
Callbacks == {"none", "plain", "suspending"}

Made(e, layers) == [exc |-> e, layers |-> layers]

\* LLMStreamingClient.stream_sync(self, prompt): declares no callback.
stream_sync(prompt, callback) ==
  IF callback # "none" THEN Made(UnexpectedKeyword, <<>>)
  ELSE Made(NoExc, <<StreamOf(prompt)>>)

\* LLMStreamingClient.astream(self, prompt): declares no callback.
astream_call(prompt, callback) ==
  IF callback # "none" THEN Made(UnexpectedKeyword, <<>>)
  ELSE Made(NoExc, <<StreamOf(prompt), AStreamLayer>>)

\* The stacks a caller builds from the module's functions: a source and up
\* to MaxWrappers wrappers around it.
Wrappers ==
  {TransformOf(f) : f \in Funcs \cup FailingFuncs} \cup {SafeOf(h) : h \in Handlers}
Sources ==
  {StreamOf(p) : p \in Prompts}
    \cup {FailingStreamOf(t, e) : t \in SeqsUpTo(SrcTokens, MaxSrcLen),
                                  e \in SrcFailures \cup {NoExc}}

(***************************************************************************)
(* State.                                                                  *)
(***************************************************************************)
VARIABLES
  call,    \* the operation the caller invoked and its arguments
  mode,    \* "sync" (blocking) or "async" (suspending)
  layers,  \* the generators constructed, innermost first
  gens,    \* their states
  pc,      \* the consumer: "idle", "ready", "sleeping", "stalled", "done",
           \* "failed", "returned", "abandoned", "closed"
  delay,   \* time left of the pending asyncio.sleep
  out,     \* tokens the consumer has received
  exc,     \* the failure raised to the consumer
  result,  \* the string a complete operation returned
  cbLog,   \* tokens the caller's callback has received
  pulls,   \* number of pulls the consumer has issued
  log,     \* what the generators did, in order (see Pull)
  late,    \* what the pulls after the end of the iteration gave
  tasks    \* the consumers that drain astream concurrently on one event loop

main == <<call, mode, layers, gens, pc, delay, out, exc, result, cbLog, pulls, log, late>>
vars == <<call, mode, layers, gens, pc, delay, out, exc, result, cbLog, pulls, log, late, tasks>>

Call(op, prompt, callback, failAt) ==
  [op |-> op, prompt |-> prompt, callback |-> callback, failAt |-> failAt]

\* A consumer task of the event loop.
Task(st, prompt, gens_, out_) == [pc |-> st, prompt |-> prompt, gens |-> gens_, out |-> out_]
Tasks == 1..MaxTasks

Init ==
  /\ call = Call("none", None, "none", 0)
  /\ mode = "sync"
  /\ layers = <<>>
  /\ gens = <<>>
  /\ pc = "idle"
  /\ delay = 0
  /\ out = <<>>
  /\ exc = NoExc
  /\ result = <<>>
  /\ cbLog = <<>>
  /\ pulls = 0
  /\ log = <<>>
  /\ late = <<>>
  /\ tasks = [i \in Tasks |-> Task("idle", None, <<>>, <<>>)]

\* The caller takes what a client stream call made: the failure, or the
\* generators to iterate.
Start(made) ==
  /\ layers' = made.layers
  /\ gens' = [i \in 1..Len(made.layers) |-> NewGen]
  /\ exc' = made.exc
  /\ pc' = IF made.exc # NoExc THEN "failed" ELSE "ready"
  /\ UNCHANGED <<delay, out, result, cbLog, pulls, log, late, tasks>>

\* tokens = list(client.stream_sync(prompt[, callback=callback])) begins.
\* failAt is the position at which the caller's callback raises (0: never).
CallStreamSync ==
  /\ pc = "idle"
  /\ \E prompt \in Prompts, callback \in Callbacks, failAt \in 0..MaxPromptLen :
       /\ callback = "none" => failAt = 0
       /\ callback # "suspending"
       /\ call' = Call("stream_sync", prompt, callback, failAt)
       /\ mode' = "sync"
       /\ Start(stream_sync(prompt, callback))

\* async for token in client.astream(prompt[, callback=callback]) begins.
CallAStream ==
  /\ pc = "idle"
  /\ \E prompt \in Prompts, callback \in Callbacks, failAt \in 0..MaxPromptLen :
       /\ callback = "none" => failAt = 0
       /\ call' = Call("astream", prompt, callback, failAt)
       /\ mode' = "async"
       /\ Start(astream_call(prompt, callback))

\* response = client.complete_sync(prompt)
CallCompleteSync ==
  /\ pc = "idle"
  /\ \E prompt \in Prompts :
       /\ call' = Call("complete_sync", prompt, "none", 0)
       /\ result' = collect_sync_response(prompt)
  /\ pc' = "returned"
  /\ mode' = "sync"
  /\ UNCHANGED <<layers, gens, delay, out, exc, cbLog, pulls, log, late, tasks>>

\* response = await client.acomplete(prompt) begins: collect_async_response
\* starts iterating async_stream(prompt).
CallAComplete ==
  /\ pc = "idle"
  /\ \E prompt \in Prompts :
       /\ call' = Call("acomplete", prompt, "none", 0)
       /\ Start(Made(NoExc, <<StreamOf(prompt)>>))
  /\ mode' = "async"

\* The caller composes the module's functions directly, as the tests do:
\* list(w2(w1(source))) or async for over it.
CallPipeline ==
  /\ pc = "idle"
  /\ \E m \in {"sync", "async"}, src \in Sources, ws \in SeqsUpTo(Wrappers, MaxWrappers) :
       /\ call' = Call("pipeline", src.prompt, "none", 0)
       /\ mode' = m
       /\ Start(Made(NoExc, <<src>> \o ws))

\* collect_async_response joining tokens[1:].
collect_async_response_skip_first(tokens) ==
  IF tokens = <<>> THEN <<>> ELSE str_join(Tail(tokens))

\* collect_async_response, line 50: the return after the async for.
collect_async_response(tokens) == str_join(tokens)

\* The events of a resumed pull: the generators were pulled when the pull
\* was issued.
NotPull(e) == e.what # "pull"

\* The consumer takes the result of a pull.  collect_async_response joins
\* its tokens when the iteration ends.
Deliver(p, events) ==
  /\ gens' = p.gens
  /\ out' = IF p.res.kind = "tok" THEN Append(out, p.res.val) ELSE out
  /\ exc' = p.res.exc
  /\ pc' = CASE p.res.kind = "tok" -> "ready"
             [] p.res.kind = "await" -> "sleeping"
             [] p.res.kind = "raise" -> "failed"
             [] OTHER -> IF call.op = "acomplete" THEN "returned" ELSE "done"
  /\ result' = IF p.res.kind = "stop" /\ call.op = "acomplete"
                 THEN collect_async_response(out) ELSE result
  /\ log' = log \o events
  /\ UNCHANGED <<call, mode, layers, cbLog, late, tasks>>

\* The consumer pulls: next(gen) / await gen.__anext__().
NextToken ==
  /\ pc = "ready"
  /\ pulls' = pulls + 1
  /\ \E p \in {Pull(mode, layers, gens, Len(layers))} :
       /\ Deliver(p, p.ev)
       /\ IF p.res.kind = "await"
            THEN delay' \in 1..MaxDelay   \* random.uniform(0.5, 1)
            ELSE delay' = delay

\* Time passes while the consumer is suspended in asyncio.sleep.
Tick ==
  /\ pc = "sleeping"
  /\ delay > 0
  /\ delay' = delay - 1
  /\ UNCHANGED <<call, mode, layers, gens, pc, out, exc, result, cbLog, pulls, log, late, tasks>>

\* The sleep is over: the event loop resumes the suspended pull.
Resume ==
  /\ pc = "sleeping"
  /\ delay = 0
  /\ \E p \in {Pull(mode, layers, gens, Len(layers))} :
       Deliver(p, SelectSeq(p.ev, NotPull))
  /\ UNCHANGED <<delay, pulls>>

\* The consumer pulls again from generators whose iteration has ended
\* (a second list(gen), another next(gen)).
PullAgain ==
  /\ pc \in {"done", "failed"}
  /\ layers # <<>>
  /\ Len(late) < MaxRePulls
  /\ LET p == Pull(mode, layers, gens, Len(layers))
     IN  /\ gens' = p.gens
         /\ out' = IF p.res.kind = "tok" THEN Append(out, p.res.val) ELSE out
         /\ late' = Append(late, p.res.kind)
         /\ log' = log \o p.ev
  /\ pulls' = pulls + 1
  /\ UNCHANGED <<call, mode, layers, pc, delay, exc, result, cbLog, tasks>>

\* The consumer leaves its loop before the end and keeps the generators
\* without pulling them any more.
Abandon ==
  /\ pc = "ready"
  /\ call.op # "acomplete"
  /\ pc' = "abandoned"
  /\ UNCHANGED <<call, mode, layers, gens, delay, out, exc, result, cbLog, pulls, log, late, tasks>>

\* The consumer leaves its loop before the end and closes the outermost
\* generator (gen.close(), await gen.aclose(), or dropping the last
\* reference to it).
Close ==
  /\ pc = "ready"
  /\ call.op # "acomplete"
  /\ LET c == CloseAll(layers, gens)
     IN  /\ gens' = c.gens
         /\ log' = log \o c.ev
  /\ pc' = "closed"
  /\ UNCHANGED <<call, mode, layers, delay, out, exc, result, cbLog, pulls, late, tasks>>

\* The pending asyncio.sleep never resolves: the event loop does not run its
\* timer any more.  Nothing in the code bounds the wait, so the consumer
\* has no step left.
Stall ==
  /\ pc = "sleeping"
  /\ pc' = "stalled"
  /\ UNCHANGED <<call, mode, layers, gens, delay, out, exc, result, cbLog, pulls, log, late, tasks>>

\* Every consumer iterates the generator object the first call returned.
astream_instance_shared(ts, i) ==
  ts[CHOOSE j \in DOMAIN ts : ts[j].pc # "idle"].gens

\* The generator objects task i iterates: those its own astream(prompt)
\* call constructed; async_stream keeps tokens and its position in locals.
astream_instance(ts, i) == ts[i].gens

\* The prompts of the concurrent consumers.
ConcPrompts ==
  {None, Str(<<" ">>), Str(<<"a">>), Str(<<"b", " ", "a">>)}

\* Task i calls client.astream(prompt) and begins its async for.
TaskStart(i) ==
  /\ tasks[i].pc = "idle"
  /\ \E prompt \in ConcPrompts :
       tasks' = [tasks EXCEPT ![i] =
                   Task("ready", prompt,
                        [k \in 1..Len(astream_call(prompt, "none").layers) |-> NewGen],
                        <<>>)]
  /\ UNCHANGED main

\* Task i takes the result of a pull of its generators.
TaskDeliver(i, p) ==
  tasks' = [tasks EXCEPT ![i] =
              Task(CASE p.res.kind = "tok" -> "ready"
                     [] p.res.kind = "await" -> "sleeping"
                     [] p.res.kind = "raise" -> "failed"
                     [] OTHER -> "done",
                   tasks[i].prompt, p.gens,
                   IF p.res.kind = "tok" THEN Append(tasks[i].out, p.res.val)
                                         ELSE tasks[i].out)]

\* Task i pulls its stream: await gen.__anext__(); it is suspended when
\* async_stream reaches asyncio.sleep, and the event loop runs another task.
TaskPull(i) ==
  /\ tasks[i].pc = "ready"
  /\ LET L == astream_call(tasks[i].prompt, "none").layers
     IN  TaskDeliver(i, Pull("async", L, astream_instance(tasks, i), Len(L)))
  /\ UNCHANGED main

\* The sleep of task i is over (the sleeps of the tasks end in any order):
\* the event loop resumes its pull.
TaskResume(i) ==
  /\ tasks[i].pc = "sleeping"
  /\ LET L == astream_call(tasks[i].prompt, "none").layers
     IN  TaskDeliver(i, Pull("async", L, astream_instance(tasks, i), Len(L)))
  /\ UNCHANGED main

Next ==
  \/ CallStreamSync
  \/ CallAStream
  \/ CallCompleteSync
  \/ CallAComplete
  \/ CallPipeline
  \/ NextToken
  \/ Tick
  \/ Resume
  \/ PullAgain
  \/ Abandon
  \/ Close

Spec == Init /\ [][Next]_vars

\* One consumer draining one stream of the client to its end, every
\* asyncio.sleep either resolving or never resolving.  The consumer's loop
\* keeps pulling, time passes and a sleep that is over resumes its task.
NextLive ==
  \/ CallStreamSync
  \/ CallAStream
  \/ CallAComplete
  \/ NextToken
  \/ Tick
  \/ Resume
  \/ Stall

SpecLive ==
  /\ Init
  /\ [][NextLive]_vars
  /\ WF_vars(NextToken)
  /\ WF_vars(Tick)
  /\ WF_vars(Resume)

\* Consumers draining their own astream streams on one event loop.
NextConc ==
  \E i \in Tasks :
    \/ TaskStart(i)
    \/ TaskPull(i)
    \/ TaskResume(i)

SpecConc == Init /\ [][NextConc]_vars

(***************************************************************************)
(* Properties.                                                             *)
(***************************************************************************)
IsPrefix(s, t) == Len(s) <= Len(t) /\ SubSeq(t, 1, Len(s)) = s

Ended == pc \in {"done", "failed", "returned"}

\* The caller wrapped a source that emits layers[1].toks and then fails in
\* one safe wrapper constructed with the given on_error.
SafeOverFailing(handler) ==
  /\ call.op = "pipeline"
  /\ Len(layers) = 2
  /\ layers[1].kind = "failing"
  /\ layers[1].fail # NoExc
  /\ layers[2] = SafeOf(handler)

\* C1: a safe wrapper with on_error over a sequence that emits t1..tn and
\* then fails with e yields t1, ..., tn, on_error(e) in that order and then
\* ends; no failure is raised to the consumer (blocking and suspending).
C1_SafeRecovers ==
  SafeOverFailing("error_token") =>
    LET expected == Append(layers[1].toks, on_error(layers[1].fail))
    IN  /\ pc # "failed"
        /\ exc = NoExc
        /\ IsPrefix(out, expected)
        /\ pc = "done" => out = expected

C1_Witness ==
  /\ SafeOverFailing("error_token")
  /\ mode = "async"
  /\ pc = "done"
  /\ Len(layers[1].toks) = 2
  /\ out = Append(layers[1].toks, on_error(layers[1].fail))

\* C2: a safe wrapper without on_error over a sequence that emits t1..tn
\* and then fails with e yields t1..tn and then raises e itself: it never
\* ends cleanly and never emits anything but t1..tn.
C2_SafeReraises ==
  SafeOverFailing("none") =>
    /\ pc # "done"
    /\ IsPrefix(out, layers[1].toks)
    /\ pc = "failed" => out = layers[1].toks /\ exc = layers[1].fail
    /\ pc # "failed" => exc = NoExc

C2_Witness ==
  /\ SafeOverFailing("none")
  /\ mode = "sync"
  /\ pc = "failed"
  /\ Len(out) = 2
  /\ exc = layers[1].fail

\* The caller passed a callback that raises nowhere to a client stream call.
WithCallback ==
  /\ call.op \in {"stream_sync", "astream"}
  /\ call.callback # "none"
  /\ call.failAt = 0

\* The tokens the client streams for the prompt when no callback is passed.
PlainTokens(prompt) ==
  Drain(stream_sync(prompt, "none").layers, <<NewGen>>, <<>>).out

\* C3: a client stream call that is passed a callback runs to its end
\* without a failure, and the tokens the callback received are the tokens
\* emitted to the caller, in the same order.
C3_CallbackSeesEveryToken ==
  (WithCallback /\ Ended) => (pc = "done" /\ exc = NoExc /\ cbLog = out)

\* C4: in astream with a suspending callback every token is given to the
\* callback before it is yielded and the next pull waits for the callback:
\* the callback is at most one token ahead of the caller, no pull is
\* pending while a callback is, and the stream delivers its tokens.
C4_CallbackThenYield ==
  (WithCallback /\ call.op = "astream" /\ call.callback = "suspending") =>
    /\ Len(out) <= Len(cbLog)
    /\ Len(cbLog) <= Len(out) + 1
    /\ IsPrefix(out, cbLog)
    /\ pc = "sleeping" => cbLog = out
    /\ Ended => (pc = "done" /\ cbLog = PlainTokens(call.prompt))

\* The failure the caller's callback raises.
CallbackFailure == Exc("Exception", <<"C">>)

\* C5: if the callback raises while handling token i, the caller gets
\* tokens 1..i-1 and then the callback's failure; token i and the tokens
\* after it are not yielded.
C5_CallbackFailurePropagates ==
  ( /\ call.op \in {"stream_sync", "astream"}
    /\ call.callback # "none"
    /\ call.failAt \in 1..Len(PlainTokens(call.prompt))
    /\ Ended ) =>
      /\ pc = "failed"
      /\ exc = CallbackFailure
      /\ out = SubSeq(PlainTokens(call.prompt), 1, call.failAt - 1)

\* C6: the tokens a client stream call yields with a callback are the
\* tokens it yields for the same prompt without one.
C6_CallbackObservesOnly ==
  (WithCallback /\ Ended) => out = PlainTokens(call.prompt)

\* C7: acomplete(P) returns the string complete_sync(P) returns, for every
\* prompt (absent, empty and whitespace-only too) and all pacing delays.
C7_ModeKeepsContent ==
  (call.op = "acomplete" /\ Ended) =>
    (pc = "returned" /\ result = collect_sync_response(call.prompt))

C7_Witness ==
  /\ call.op = "acomplete"
  /\ pc = "returned"
  /\ Len(out) = 2
  /\ result = collect_sync_response(call.prompt)
  /\ result # <<>>

\* No two whitespace characters stand next to each other in s.
NoRepeatedWhitespace(s) ==
  \A i \in 1..(Len(s) - 1) : ~(IsSpace(s[i]) /\ IsSpace(s[i + 1]))

\* s is its own single-space normal form: no leading or trailing
\* whitespace and exactly one space character between two words.
SingleSpaced(s) ==
  /\ s # <<>>
  /\ ~IsSpace(s[1])
  /\ ~IsSpace(s[Len(s)])
  /\ \A i \in 1..Len(s) : IsSpace(s[i]) => s[i] = " "
  /\ NoRepeatedWhitespace(s)

\* C8 as stated: complete_sync(P) = P for every non-empty prompt without
\* repeated whitespace.
C8_RoundTripAsStated ==
  ( /\ call.op = "complete_sync"
    /\ pc = "returned"
    /\ Truthy(call.prompt)
    /\ NoRepeatedWhitespace(call.prompt.str) ) =>
      result = call.prompt.str

\* C8 (amended): complete_sync(P) = P for every prompt P that is
\* single-space normalised: non-empty, no leading or trailing whitespace,
\* words separated by exactly one space character.
C8_RoundTrip ==
  ( /\ call.op = "complete_sync"
    /\ pc = "returned"
    /\ call.prompt.some
    /\ SingleSpaced(call.prompt.str) ) =>
      result = call.prompt.str

C8_Witness ==
  /\ call.op = "complete_sync"
  /\ pc = "returned"
  /\ call.prompt = Str(<<"a", " ", "b">>)
  /\ result = <<"a", " ", "b">>

\* The caller iterates sync_stream(prompt) / async_stream(prompt) itself or
\* through the client, with no callback.
RawStream ==
  \/ call.op = "stream_sync" /\ call.callback = "none"
  \/ call.op = "astream" /\ call.callback = "none"
  \/ call.op = "pipeline" /\ Len(layers) = 1 /\ layers[1].kind = "stream"

\* For an absent or empty prompt the stream emits "No", "prompt",
\* "provided" in that order and then ends.
FallbackForNoPrompt ==
  (RawStream /\ ~Truthy(call.prompt)) =>
    /\ pc # "failed"
    /\ IsPrefix(out, NoPromptTokens)
    /\ pc = "done" => out = NoPromptTokens

\* C9 as stated: the fallback tokens for an absent or empty prompt, and for
\* no other prompt.
C9_FallbackAsStated ==
  /\ FallbackForNoPrompt
  /\ (RawStream /\ Truthy(call.prompt) /\ pc = "done") => out # NoPromptTokens

\* C9 (amended): the fallback tokens for an absent or empty prompt; every
\* other prompt emits its own whitespace-separated words, which are the
\* fallback tokens only if the prompt spells them.
C9_Fallback ==
  /\ FallbackForNoPrompt
  /\ (RawStream /\ Truthy(call.prompt)) =>
       /\ pc # "failed"
       /\ IsPrefix(out, str_split(call.prompt.str))
       /\ pc = "done" => out = str_split(call.prompt.str)

C9_Witness ==
  /\ call.op = "astream"
  /\ call.prompt = None
  /\ pc = "done"
  /\ out = NoPromptTokens

\* The caller wrapped a source in one transform wrapper.
TransformOverSource ==
  /\ call.op = "pipeline"
  /\ Len(layers) = 2
  /\ layers[1].fail = NoExc
  /\ layers[2].kind = "transform"
  /\ layers[2].f \in Funcs

\* The tokens the source of the stack emits.
SourceTokens ==
  IF layers[1].kind = "failing" THEN layers[1].toks
  ELSE IF Truthy(layers[1].prompt) THEN str_split(layers[1].prompt.str)
  ELSE NoPromptTokens

\* C10: transform_sync_stream(S, f) / transform_async_stream(S, f) yields
\* f(S[1]), f(S[2]), ... in order and ends after Len(S) tokens.
C10_TransformMaps ==
  TransformOverSource =>
    /\ pc # "failed"
    /\ Len(out) <= Len(SourceTokens)
    /\ \A i \in 1..Len(out) : out[i] = transform_func(layers[2].f, SourceTokens[i])
    /\ pc = "done" => Len(out) = Len(SourceTokens)

C10_Witness ==
  /\ TransformOverSource
  /\ mode = "async"
  /\ layers[1].kind = "failing"
  /\ layers[2].f = "to_upper"
  /\ pc = "done"
  /\ out = << <<"A">>, <<"A", "B">> >>

\* C11: the string a complete operation returns is empty if and only if
\* the token sequence it drained produced no token.
C11_EmptyIffNoTokens ==
  /\ (call.op = "acomplete" /\ pc = "returned") =>
       (result = <<>> <=> out = <<>>)
  /\ (call.op = "complete_sync" /\ pc = "returned") =>
       (result = <<>> <=> Drain(<<StreamOf(call.prompt)>>, <<NewGen>>, <<>>).out = <<>>)

C11_Witness ==
  /\ call.op = "acomplete"
  /\ pc = "returned"
  /\ call.prompt = Str(<<" ", "\t">>)
  /\ out = <<>>
  /\ result = <<>>

\* What the generators did: the events of generator k of a kind.
EventsAt(k, what) == SelectSeq(log, LAMBDA e : e.k = k /\ e.what = what)
Count(k, what) == Len(EventsAt(k, what))

\* C12: once the iteration over a generator (raw stream, transform wrapper
\* or safe wrapper) has ended with exhaustion, every further pull gives
\* StopIteration: no token, no failure.
C12_DrainedStaysEmpty ==
  pc = "done" =>
    /\ \A i \in 1..Len(late) : late[i] = "stop"
    /\ exc = NoExc
    /\ Len(out) + 1 + Len(late) = pulls

C12_Witness ==
  /\ pc = "done"
  /\ mode = "sync"
  /\ Len(layers) = 3
  /\ layers[2].kind = "transform"
  /\ layers[3].kind = "safe"
  /\ Len(out) = 2
  /\ late = <<"stop", "stop">>

\* C13: through any stack of wrappers, the source has been pulled at most
\* as often as the consumer has pulled, it has handed out at most that many
\* tokens, and each transform function has been applied at most that many
\* times and only to tokens its inner generator has handed out; this holds
\* for a consumer that stops early too.
C13_NoPullAhead ==
  (call.op = "pipeline" /\ layers # <<>>) =>
    /\ Count(1, "pull") <= pulls
    /\ gens[1].pos <= pulls
    /\ \A k \in 2..Len(layers) :
         /\ Count(k - 1, "pull") <= Count(k, "pull")
         /\ Count(k, "transform_func") <= pulls
         /\ Count(k, "transform_func") <= gens[k - 1].pos

C13_Witness ==
  /\ call.op = "pipeline"
  /\ pc = "abandoned"
  /\ Len(layers) = 3
  /\ layers[1].kind = "failing"
  /\ Len(layers[1].toks) = 2
  /\ layers[2].kind = "transform"
  /\ layers[3].kind = "safe"
  /\ pulls = 1
  /\ gens[1].pos = 1
  /\ Count(2, "transform_func") = 1

\* The tokens transform_func was invoked with in generator k, in order.
FCalls(k) ==
  LET evs == EventsAt(k, "transform_func") IN [i \in 1..Len(evs) |-> evs[i].val]

\* The caller wrapped a source that emits layers[1].toks and then fails in
\* one transform wrapper with a pure function.
TransformOverFailing ==
  /\ call.op = "pipeline"
  /\ Len(layers) = 2
  /\ layers[1].kind = "failing"
  /\ layers[1].fail # NoExc
  /\ layers[2].kind = "transform"
  /\ layers[2].f \in Funcs

\* C14: over a source that emits t1..tn and then fails, the transform
\* function is invoked once for each of t1..tn in order and for nothing
\* else, also on later pulls; the consumer gets the n transformed tokens
\* and then the failure of the source.
C14_TransformStopsAtFailure ==
  TransformOverFailing =>
    /\ IsPrefix(FCalls(2), layers[1].toks)
    /\ out = [i \in 1..Len(FCalls(2)) |-> transform_func(layers[2].f, FCalls(2)[i])]
    /\ pc # "done"
    /\ pc = "failed" => FCalls(2) = layers[1].toks /\ exc = layers[1].fail

C14_Witness ==
  /\ TransformOverFailing
  /\ mode = "sync"
  /\ pc = "failed"
  /\ Len(late) = 1
  /\ FCalls(2) = << <<"a">>, <<"a", "b">> >>
  /\ exc = layers[1].fail

\* C15: a safe wrapper never pulls its inner generator again after that
\* generator raised; it yields the inner generator's tokens plus, on the
\* recovery path, exactly one more; once the inner generator has raised it
\* is past streaming, and when the iteration over it has ended it is
\* finished, with a failure (FAILED) or without one (EXHAUSTED).
C15_SafeStateMachine ==
  \A k \in 2..Len(layers) :
    layers[k].kind = "safe" =>
      /\ \A i \in 1..Len(log), j \in 1..Len(log) :
           (i < j /\ log[i].k = k - 1 /\ log[i].what = "raise")
             => ~(log[j].k = k - 1 /\ log[j].what = "pull")
      /\ gens[k].pos = gens[k - 1].pos
                         + (IF layers[k].on_error = "error_token"
                              THEN Count(k, "on_error") ELSE 0)
      /\ Count(k, "on_error") <= 1
      /\ Count(k - 1, "raise") > 0 => gens[k].st \in {"recovered", "finished"}
      /\ (k = Len(layers) /\ pc \in {"done", "failed"}) =>
           /\ gens[k].st = "finished"
           /\ pc = "done" <=> exc = NoExc

C15_Witness ==
  /\ call.op = "pipeline"
  /\ mode = "async"
  /\ Len(layers) = 3
  /\ layers[2].kind = "transform"
  /\ layers[3] = SafeOf("error_token")
  /\ pc = "done"
  /\ Len(late) = 1
  /\ Count(2, "raise") = 1
  /\ Count(3, "on_error") = 1
  /\ Len(out) = 3

\* Generator k is a transform wrapper whose transform function has raised.
TransformFailed(k) ==
  /\ layers[k].kind = "transform"
  /\ \E i \in 1..Len(log) :
       /\ log[i].k = k
       /\ log[i].what = "transform_func"
       /\ transform_raises(layers[k].f, log[i].val)

\* The safe wrappers with a recovery policy outside generator k.
PoliciesOutside(k) ==
  {j \in (k + 1)..Len(layers) : layers[j].kind = "safe" /\ layers[j].on_error # "none"}

\* C16 as stated: in every composition a failure of the transform function
\* reaches the consumer; no wrapper substitutes a token for it.
C16_TransformFailureAsStated ==
  \A k \in 2..Len(layers) :
    TransformFailed(k) => (pc = "failed" /\ exc = TransformFailure)

\* C16 (amended): a failure of the transform function reaches the consumer
\* through the transform wrappers and the safe wrappers without a recovery
\* policy outside it; if a safe wrapper with a recovery policy is outside,
\* the innermost such wrapper hands the failure to on_error, as it does with
\* any failure of its inner generator.
C16_TransformFailure ==
  \A k \in 2..Len(layers) :
    TransformFailed(k) =>
      IF PoliciesOutside(k) = {}
        THEN /\ pc = "failed"
             /\ exc = TransformFailure
             /\ \A j \in k..Len(layers) : gens[j].st = "finished"
        ELSE LET j == CHOOSE x \in PoliciesOutside(k) : \A y \in PoliciesOutside(k) : x <= y
             IN  /\ Count(j, "on_error") = 1
                 /\ EventsAt(j, "on_error")[1].exc = TransformFailure

C16_Witness ==
  /\ call.op = "pipeline"
  /\ Len(layers) = 3
  /\ layers[1].kind = "failing"
  /\ layers[2] = TransformOf("reject_b")
  /\ layers[3] = SafeOf("none")
  /\ TransformFailed(2)
  /\ pc = "failed"
  /\ exc = TransformFailure
  /\ out = << <<"A">> >>

\* C19: in each safe wrapper on_error is invoked at most once, and only
\* with the failure its inner generator has just raised: not when the inner
\* generator ends normally, and not when the consumer abandons or closes
\* the wrapper.
C19_OnErrorGuarded ==
  \A k \in 2..Len(layers) :
    layers[k].kind = "safe" =>
      /\ Count(k, "on_error") <= 1
      /\ \A i \in 1..Len(log) :
           (log[i].k = k /\ log[i].what = "on_error") =>
             /\ i > 1
             /\ log[i - 1] = Ev(k - 1, "raise", <<>>, log[i].exc)
      /\ Count(k - 1, "raise") = 0 => Count(k, "on_error") = 0
      /\ layers[k].on_error = "none" => Count(k, "on_error") = 0

C19_Witness ==
  /\ call.op = "pipeline"
  /\ Len(layers) = 2
  /\ layers[1].kind = "failing"
  /\ layers[1].fail # NoExc
  /\ layers[2] = SafeOf("error_token")
  /\ pc = "closed"
  /\ Len(out) = 1
  /\ gens[2].st = "finished"
  /\ Count(2, "on_error") = 0

\* The caller wrapped a source that emits layers[1].toks and then fails in
\* one safe wrapper whose on_error raises.
SafeWithFailingPolicy ==
  /\ call.op = "pipeline"
  /\ Len(layers) = 2
  /\ layers[1].kind = "failing"
  /\ layers[1].fail # NoExc
  /\ layers[2] = SafeOf("raises")

\* C20: if on_error itself raises, the safe wrapper emits the tokens of the
\* inner generator and no substitute token, the failure of on_error is
\* raised to the consumer and the wrapper is finished; later pulls give
\* nothing.
C20_FailingPolicy ==
  SafeWithFailingPolicy =>
    /\ IsPrefix(out, layers[1].toks)
    /\ pc # "done"
    /\ pc = "failed" =>
         /\ out = layers[1].toks
         /\ exc = OnErrorFailure
         /\ gens[2].st = "finished"
         /\ EventsAt(2, "on_error") = <<Ev(2, "on_error", <<>>, layers[1].fail)>>
         /\ \A i \in 1..Len(late) : late[i] = "stop"

C20_Witness ==
  /\ SafeWithFailingPolicy
  /\ mode = "sync"
  /\ pc = "failed"
  /\ Len(out) = 2
  /\ exc = OnErrorFailure
  /\ Len(late) = 1

\* C17: draining the blocking stream ends after finitely many pulls (one
\* per token and one more); draining the suspending stream ends unless a
\* sleep never resolves, and a consumer whose sleep never resolves stays
\* where it is: no token, no failure, no end.
C17_Termination ==
  /\ (pc = "ready" /\ mode = "sync") ~> (pc = "done")
  /\ [](call.op = "stream_sync" /\ layers # <<>> =>
          pulls <= Len(sync_stream_tokens(call.prompt)) + 1)
  /\ (pc = "ready" /\ mode = "async") ~> (pc \in {"done", "returned", "stalled"})
  /\ [][pc = "stalled" => (pc' = "stalled" /\ out' = out /\ exc' = exc /\ result' = result)]_vars

C17_Witness ==
  /\ call.op = "astream"
  /\ pc = "stalled"
  /\ Len(out) = 1
  /\ Len(gens[1].toks) = 2
  /\ exc = NoExc

\* C18: under every interleaving of the tasks' pulls and resumptions, each
\* task has received a prefix of the tokens of its own prompt, and all of
\* them when its iteration has ended, which it does without a failure.
C18_Isolation ==
  \A i \in Tasks :
    /\ tasks[i].pc # "failed"
    /\ tasks[i].pc # "idle" =>
         /\ IsPrefix(tasks[i].out, async_stream_tokens(tasks[i].prompt))
         /\ tasks[i].pc = "done" => tasks[i].out = async_stream_tokens(tasks[i].prompt)

C18_Witness ==
  /\ tasks[1].pc = "done"
  /\ tasks[1].out = <<"a">>
  /\ tasks[2].pc = "sleeping"
  /\ tasks[2].out = <<"b">>

====
